---- MODULE Spec2Model ----
(***************************************************************************)
(* A model of fiftyone/core/models.py: the dispatch of apply_model,        *)
(* compute_embeddings and compute_patch_embeddings, the batch-size         *)
(* negotiation of _parse_batch_size, the single-item, batched, video and   *)
(* patch executors, and the patch geometry of _extract_patch.              *)
(*                                                                         *)
(* Python values are represented as follows.                               *)
(*   None / a value v        : the sequences <<>> / <<v>>                  *)
(*   a numpy array           : [shape |-> <<d1,..,dk>>, data |-> row-major  *)
(*                             sequence of its elements]                   *)
(*   a decoded image, a video reader or a patch : a media token            *)
(*                             [img |-> sample, region |-> <<x,y,w,h>>]    *)
(*   a normalized coordinate : an integer number of thousandths            *)
(*   alpha                   : an integer number of tenths                 *)
(***************************************************************************)
EXTENDS Integers, Sequences, FiniteSets, TLC

\* Bounds of the explored inputs.  Collections given to apply_model and
\* compute_embeddings have up to MaxSamples samples, those given to
\* compute_patch_embeddings up to MaxPatchSamples, each with up to MaxDets
\* detections.
MaxSamples == 3
MaxPatchSamples == 2
MaxBatch == 2
MaxDets == 2
MaxPaths == 3

----------------------------------------------------------------------------
\* Optional values.
None == <<>>
Some(v) == <<v>>
IsNone(o) == o = <<>>
Val(o) == o[1]

Max(a, b) == IF a >= b THEN a ELSE b
Min(a, b) == IF a <= b THEN a ELSE b
\* Python's int(): truncation toward zero of the rational a / b (b > 0).
Trunc(a, b) == IF a >= 0 THEN a \div b ELSE -((-a) \div b)

RECURSIVE SumSeq(_)
SumSeq(s) == IF s = <<>> THEN 0 ELSE Head(s) + SumSeq(Tail(s))

RECURSIVE Flatten(_)
Flatten(ss) == IF ss = <<>> THEN <<>> ELSE Head(ss) \o Flatten(Tail(ss))

----------------------------------------------------------------------------
\* numpy arrays.
Arr(shape, data) == [shape |-> shape, data |-> data]
NoArr == Arr(<<>>, <<>>)
Rank(a) == Len(a.shape)
\* The number of elements of one entry along axis 0.
RowLen(a) == IF a.shape[1] = 0 THEN 0 ELSE Len(a.data) \div a.shape[1]
\* a[j] for a 1-based j: the j-th entry along axis 0.
Row(a, j) == Arr(Tail(a.shape), SubSeq(a.data, (j - 1) * RowLen(a) + 1, j * RowLen(a)))
\* np.stack(list, axis=0) of a non-empty list of equally shaped arrays.
np_stack(list) ==
    Arr(<<Len(list)>> \o list[1].shape, Flatten([j \in 1..Len(list) |-> list[j].data]))
\* np.concatenate(list) (axis 0) of a non-empty list of arrays; the empty
\* list raises ValueError and is handled by the callers.
np_concatenate(list) ==
    Arr(<<SumSeq([j \in 1..Len(list) |-> list[j].shape[1]])>> \o Tail(list[1].shape),
        Flatten([j \in 1..Len(list) |-> list[j].data]))

----------------------------------------------------------------------------
\* Media tokens.  The model's inference is deterministic and
\* batch-size-independent: the feature vector of an input is a function of
\* the input alone.
ImgSize == <<100, 100>>
Image(s) == [img |-> s, region |-> <<0, 0, ImgSize[1], ImgSize[2]>>]
Vec(x) == <<x>>

\* Model.predict: the label predicted for input x.
predict(m, x) == Arr(<<>>, <<x>>)
\* Model.predict_all: by default [self.predict(arg) for arg in args]; an
\* overriding model returns the same list.
predict_all(m, args) == [j \in 1..Len(args) |-> predict(m, args[j])]
\* EmbeddingsMixin.get_embeddings after predict(x): first axis is the batch
\* size, which is 1.
get_embeddings(m, x) == Arr(<<1, Len(Vec(x))>>, Vec(x))
\* EmbeddingsMixin.embed: self.predict(arg); return self.get_embeddings()
embed(m, x) == get_embeddings(m, x)
\* EmbeddingsMixin.embed_all: np.stack([self.embed(arg) for arg in args],
\* axis=0) by default; a model that overrides it returns the embeddings
\* stacked along axis 0, one row per input.
embed_all(m, args) ==
    IF m.overrides_embed_all
    THEN Arr(<<Len(args), Len(Vec(args[1]))>>,
             Flatten([j \in 1..Len(args) |-> Vec(args[j])]))
    ELSE np_stack([j \in 1..Len(args) |-> embed(m, args[j])])

----------------------------------------------------------------------------
\* A mutant of _parse_batch_size: the ragged test uses >= 1.
_parse_batch_size_ge(batch_size, m, default_batch_size) ==
    LET r == IF IsNone(batch_size) THEN default_batch_size ELSE batch_size
        ragged == ~IsNone(r) /\ Val(r) >= 1 /\ m.ragged_batches
    IN  [batch_size |-> IF ragged THEN None ELSE r, warned |-> ragged]
\* _parse_batch_size(batch_size, model), with fo.config.default_batch_size
\* as an explicit argument.  Returns the negotiated batch size and whether
\* the warning was logged.
_parse_batch_size(batch_size, m, default_batch_size) ==
    LET r == IF IsNone(batch_size) THEN default_batch_size ELSE batch_size
        ragged == ~IsNone(r) /\ Val(r) > 1 /\ m.ragged_batches
    IN  [batch_size |-> IF ragged THEN None ELSE r, warned |-> ragged]

\* fou.iter_batches(iterable, batch_size): the next batch taken from the
\* items not yet consumed; empty when the iterator is exhausted (or when
\* batch_size is 0), which ends the iteration.
iter_batches(items, consumed, batch_size) ==
    SubSeq(items, consumed + 1, Min(Len(items), consumed + batch_size))

----------------------------------------------------------------------------
\* Patch geometry.
\* Detection.to_detected_object: [x, y, w, h] -> top-left/bottom-right.
to_detected_object(bounding_box) ==
    [tlx |-> bounding_box[1], tly |-> bounding_box[2],
     brx |-> bounding_box[1] + bounding_box[3],
     bry |-> bounding_box[2] + bounding_box[4]]
\* RelativePoint.clamp: to [0, 1].
clamp(v) == Max(0, Min(1000, v))
\* BoundingBox.pad_relative(alpha): width and height grow by alpha * size,
\* half on each side, clamped to the image; alpha below -1 is -1.  This is
\* the rule of the compute_patch_embeddings docstring ("expanded by
\* (100 * alpha)%", alpha in [-1, inf)), under which alpha = 0 leaves the
\* box as it is.
pad_relative(bbox, alpha) ==
    LET a == Max(alpha, -10)
        wpad == (a * (bbox.brx - bbox.tlx)) \div 20
        hpad == (a * (bbox.bry - bbox.tly)) \div 20
    IN  [tlx |-> clamp(bbox.tlx - wpad), tly |-> clamp(bbox.tly - hpad),
         brx |-> clamp(bbox.brx + wpad), bry |-> clamp(bbox.bry + hpad)]
\* RelativePoint.coords_in: int(w * x), int(h * y).
coords_in(v, size) == Trunc(size * v, 1000)
\* _make_square's pad(z, dz, zmax) on the slice z = <<start, stop>>.
square_pad(z, dz, zmax) ==
    LET dz1 == Trunc(dz, 2)
        dz2 == dz - dz1
        ddz == Max(0, dz1 - z[1]) - Max(0, z[2] + dz2 - zmax)
    IN  <<z[1] - dz1 + ddz, z[2] + dz2 + ddz>>
\* _make_square(x, y, w, h) for a slice x no wider than y is tall.
make_square_skinny(x, y, w, h) ==
    LET dx == (y[2] - y[1]) - (x[2] - x[1])
        dy == Min(0, w - dx - (x[2] - x[1]))
    IN  <<square_pad(x, dx, w), square_pad(y, dy, h)>>
\* _make_square(x, y, w, h): expands the smaller dimension of the slices.
make_square(x, y, w, h) ==
    IF (y[2] - y[1]) - (x[2] - x[1]) < 0
    THEN LET r == make_square_skinny(y, x, h, w) IN <<r[2], r[1]>>
    ELSE make_square_skinny(x, y, w, h)
\* img[y, x, ...]: a slice <<start, stop>> is cut at the image's extent.
slice_in(z, zmax) == <<Min(Max(z[1], 0), zmax), Min(Max(z[2], 0), zmax)>>
\* BoundingBox.extract_from(img, force_square): the pixel region
\* <<x, y, w, h>> that is cut out of an image of the given size.
extract_from(bbox, size, force_square) ==
    LET x == <<coords_in(bbox.tlx, size[1]), coords_in(bbox.brx, size[1])>>
        y == <<coords_in(bbox.tly, size[2]), coords_in(bbox.bry, size[2])>>
        sq == IF force_square THEN make_square(x, y, size[1], size[2]) ELSE <<x, y>>
        xs == slice_in(sq[1], size[1])
        ys == slice_in(sq[2], size[2])
    IN  <<xs[1], ys[1], xs[2] - xs[1], ys[2] - ys[1]>>

\* A mutant of _extract_patch: a missing alpha pads by a default of 0.1.
_extract_patch_default(size, bounding_box, force_square, alpha) ==
    LET dobj == to_detected_object(bounding_box)
        bbox == pad_relative(dobj, IF IsNone(alpha) THEN 1 ELSE Val(alpha))
    IN  [bbox |-> bbox, region |-> extract_from(bbox, size, force_square)]
\* _extract_patch(img, detection, force_square, alpha): the box that is
\* extracted (padded iff alpha is not None) and its pixel region.
_extract_patch(size, bounding_box, force_square, alpha) ==
    LET dobj == to_detected_object(bounding_box)
        bbox == IF IsNone(alpha) THEN dobj ELSE pad_relative(dobj, Val(alpha))
    IN  [bbox |-> bbox, region |-> extract_from(bbox, size, force_square)]

----------------------------------------------------------------------------
\* Samples and their patch labels.
\* The value of sample[patches_field]: None, or a label of the field's type
\* holding k detections (polylines convert one to one).
Label(type, k) == [type |-> type, k |-> k]
NoLabel == Label("NoneType", 0)
AllowedTypes == {"Detection", "Detections", "Polyline", "Polylines"}
LabelsOfType(type) ==
    CASE type = "Detection" -> {Label(type, 1)}
      [] type = "Detections" -> {Label(type, k) : k \in 0..MaxDets}
      [] type = "Polyline" -> {Label(type, 1)}
      [] type = "Polylines" -> {Label(type, k) : k \in 0..1}
      [] OTHER -> {}
\* The normalized [x, y, w, h] box of the d-th detection of a sample.
DetBox(s, d) == <<100 * d, 100 * s, 200, 200>>

\* A mutant of _parse_patches: an empty Detections is reported as None and
\* a single Detection is not wrapped.
_parse_patches_nowrap(label) ==
    IF label.type \in {"Detections", "Polylines"} /\ label.k > 0
    THEN Some([d \in 1..label.k |-> d])
    ELSE None
\* _parse_patches(sample, patches_field): None, or the Detections (the
\* sequence of detection indices) the label resolves to.
_parse_patches(label) ==
    IF label.type \in AllowedTypes
    THEN Some([d \in 1..label.k |-> d])
    ELSE None

----------------------------------------------------------------------------
VARIABLES
    samples,            \* the collection: media_type, n, patches_type, labels
    model,              \* the model's capabilities
    op,                 \* the entry point this session calls
    field,              \* embeddings_field (label_field for apply_model)
    batch_size_arg,     \* the batch_size the caller passed
    default_batch_size, \* fo.config.default_batch_size
    pc,                 \* position of the call
    path,               \* the executor the dispatch chose
    batch_size,         \* the local variable batch_size
    consulted,          \* whether _parse_batch_size was called
    it,                 \* samples consumed from the collection's iterator
    batch,              \* the current sample (batch)
    imgs,               \* media decoded for the current sample (batch)
    out,                \* the model's output for the current sample (batch)
    j,                  \* items of the current batch written / detections embedded
    acc,                \* the local list `embeddings`
    embeddings_dict,    \* compute_patch_embeddings' embeddings_dict
    reader,             \* the open video reader, if any
    log,                \* the calls made on the model, the decoder and the samples
    result,             \* the value returned
    err,                \* the exception raised
    last,               \* what the last completed single-item run produced
    geom,               \* one call of _extract_patch
    voc                 \* one call of export_voc_detection_dataset

session == <<samples, model, op, field>>
config == <<batch_size_arg, default_batch_size>>
run == <<pc, path, batch_size, consulted, it, batch, imgs, out, j, acc,
         embeddings_dict, reader, log, result, err>>
vars == <<samples, model, op, field, batch_size_arg, default_batch_size,
          pc, path, batch_size, consulted, it, batch, imgs, out, j, acc,
          embeddings_dict, reader, log, result, err, last, geom, voc>>

Ev(kind, s, args, val) == [kind |-> kind, sample |-> s, args |-> args, val |-> val]
Res(kind, arr, dict) == [kind |-> kind, arr |-> arr, dict |-> dict]
NoResult == Res("unset", NoArr, <<>>)
NoLast == [valid |-> FALSE, written |-> <<>>, result |-> NoResult]
NoVoc == [stage |-> "idle", image_paths |-> <<>>, i |-> 0, counts |-> <<>>,
          outputs |-> <<>>, err |-> ""]
NoGeom == [stage |-> "idle", size |-> <<0, 0>>, bounding_box |-> <<0, 0, 0, 0>>,
           force_square |-> FALSE, alpha |-> None,
           bbox |-> to_detected_object(<<0, 0, 0, 0>>), region |-> <<0, 0, 0, 0>>]

Models ==
    {m \in [embeddings_mixin : BOOLEAN, has_embeddings : BOOLEAN,
            torch_mixin : BOOLEAN, ragged_batches : BOOLEAN,
            overrides_embed_all : BOOLEAN] :
        /\ m.has_embeddings => m.embeddings_mixin
        /\ m.overrides_embed_all => m.has_embeddings}
Collections(types, max) ==
    UNION {
        {[media_type |-> mt, n |-> n, patches_type |-> ty, labels |-> ls] :
            ls \in [1..n -> {NoLabel} \cup LabelsOfType(ty)]} :
        mt \in {"image", "video"}, n \in 0..max, ty \in types}
BatchSizes == {None} \cup {Some(b) : b \in 0..MaxBatch}
Defaults == {None, Some(MaxBatch)}

Samples == [s \in 1..samples.n |-> s]
IsApply == op = "apply_model"
\* `if embeddings_field:` -- false for None and for the empty string.
FieldMode == ~IsNone(field) /\ Val(field) # ""

\* The values written to sample s, in the order written.
RECURSIVE WrittenIn(_, _)
WrittenIn(l, s) ==
    IF l = <<>> THEN <<>>
    ELSE IF Head(l).kind \in {"write", "add_labels"} /\ Head(l).sample = s
         THEN <<Head(l).val>> \o WrittenIn(Tail(l), s)
         ELSE WrittenIn(Tail(l), s)
Written(s) == WrittenIn(log, s)
RECURSIVE CountKind(_, _, _)
CountKind(l, kinds, s) ==
    IF l = <<>> THEN 0
    ELSE (IF Head(l).kind \in kinds /\ (s = 0 \/ Head(l).sample = s) THEN 1 ELSE 0)
         + CountKind(Tail(l), kinds, s)
ModelCalls == {"predict", "predict_all", "embed", "embed_all"}

Init ==
    /\ \/ /\ op = "apply_model"
          /\ field = Some("label_field")
          /\ samples \in Collections({"Detections"}, MaxSamples)
          /\ \A s \in 1..samples.n : samples.labels[s] = NoLabel
       \/ /\ op = "compute_embeddings"
          /\ field \in {None, Some(""), Some("embeddings_field")}
          /\ samples \in Collections({"Detections"}, MaxSamples)
          /\ \A s \in 1..samples.n : samples.labels[s] = NoLabel
       \/ /\ op = "compute_patch_embeddings"
          /\ field \in {None, Some(""), Some("embeddings_field")}
          /\ samples \in Collections(AllowedTypes \cup {"Classification"},
                                    MaxPatchSamples)
    /\ model \in Models
    /\ batch_size_arg = None
    /\ default_batch_size = None
    /\ pc = "idle"
    /\ path = "none"
    /\ batch_size = None
    /\ consulted = FALSE
    /\ it = 0
    /\ batch = <<>>
    /\ imgs = <<>>
    /\ out = NoArr
    /\ j = 0
    /\ acc = <<>>
    /\ embeddings_dict = <<>>
    /\ reader = None
    /\ log = <<>>
    /\ result = NoResult
    /\ err = ""
    /\ last = NoLast
    /\ geom = NoGeom
    /\ voc = NoVoc

\* The caller invokes the session's entry point with a batch size, under a
\* process-wide default; what a completed single-item run produced is kept
\* for comparison with the next runs.
Call ==
    /\ pc \in {"idle", "done", "raised", "backend"}
    /\ batch_size_arg' \in BatchSizes
    /\ default_batch_size' \in Defaults
    /\ batch_size' = batch_size_arg'
    /\ pc' = "start"
    /\ path' = "none"
    /\ consulted' = FALSE
    /\ it' = 0
    /\ batch' = <<>>
    /\ imgs' = <<>>
    /\ out' = NoArr
    /\ j' = 0
    /\ acc' = <<>>
    /\ embeddings_dict' = <<>>
    /\ reader' = None
    /\ log' = <<>>
    /\ result' = NoResult
    /\ err' = ""
    /\ last' = IF pc = "done" /\ path = "single"
               THEN [valid |-> TRUE,
                     written |-> [s \in 1..samples.n |-> Written(s)],
                     result |-> result]
               ELSE last
    /\ UNCHANGED <<session, geom, voc>>

\* Raising an exception before the model is entered.
Raise(e) ==
    /\ pc' = "raised"
    /\ err' = e
    /\ UNCHANGED <<path, batch_size, consulted, log>>
\* Handing the call to the Torch data-loader path, batch_size passed as is.
Backend ==
    /\ pc' = "backend"
    /\ path' = "backend"
    /\ log' = Append(log, Ev("backend", 0, <<>>, NoArr))
    /\ err' = ""
    /\ UNCHANGED <<batch_size, consulted>>
\* batch_size = _parse_batch_size(batch_size, model), then the choice
\* between the batched and the single-item (or patch) executor.
Negotiate(batched, single) ==
    LET r == _parse_batch_size(batch_size, model, default_batch_size) IN
    /\ batch_size' = r.batch_size
    /\ consulted' = TRUE
    /\ log' = IF r.warned THEN Append(log, Ev("warning", 0, <<>>, NoArr)) ELSE log
    /\ path' = IF ~IsNone(r.batch_size) THEN batched ELSE single
    /\ pc' = "enter"
    /\ err' = ""
\* A mutant of Route: the Torch path is tried before the media type.
Route_torch_first ==
    IF model.torch_mixin
    THEN Backend
    ELSE IF samples.media_type = "video"
    THEN /\ path' = "video"
         /\ pc' = "enter"
         /\ err' = ""
         /\ UNCHANGED <<batch_size, consulted, log>>
    ELSE Negotiate("batch", "single")
\* The routing shared by apply_model and compute_embeddings: video, else
\* the Torch data-loader path, else the negotiated image executor.
Route ==
    IF samples.media_type = "video"
    THEN /\ path' = "video"
         /\ pc' = "enter"
         /\ err' = ""
         /\ UNCHANGED <<batch_size, consulted, log>>
    ELSE IF model.torch_mixin
    THEN Backend
    ELSE Negotiate("batch", "single")

apply_model ==
    /\ pc = "start"
    /\ op = "apply_model"
    /\ Route
    /\ UNCHANGED <<session, config, it, batch, imgs, out, j, acc,
                   embeddings_dict, reader, result, last, geom, voc>>

\* A mutant of compute_embeddings: has_embeddings is not checked.
compute_embeddings_unchecked ==
    /\ pc = "start"
    /\ op = "compute_embeddings"
    /\ IF ~model.embeddings_mixin THEN Raise("ValueError: mixin")
       ELSE Route
    /\ UNCHANGED <<session, config, it, batch, imgs, out, j, acc,
                   embeddings_dict, reader, result, last, geom, voc>>

compute_embeddings ==
    /\ pc = "start"
    /\ op = "compute_embeddings"
    /\ IF ~model.embeddings_mixin THEN Raise("ValueError: mixin")
       ELSE IF ~model.has_embeddings THEN Raise("ValueError: has_embeddings")
       ELSE Route
    /\ UNCHANGED <<session, config, it, batch, imgs, out, j, acc,
                   embeddings_dict, reader, result, last, geom, voc>>

compute_patch_embeddings ==
    /\ pc = "start"
    /\ op = "compute_patch_embeddings"
    /\ IF samples.media_type # "image" THEN Raise("ValueError: image")
       ELSE IF ~model.embeddings_mixin THEN Raise("ValueError: mixin")
       ELSE IF ~model.has_embeddings THEN Raise("ValueError: has_embeddings")
       ELSE IF model.torch_mixin THEN Backend
       ELSE IF samples.patches_type \notin AllowedTypes
       THEN Raise("ValueError: label field type")
       ELSE Negotiate("patch", "patch")
    /\ UNCHANGED <<session, config, it, batch, imgs, out, j, acc,
                   embeddings_dict, reader, result, last, geom, voc>>

----------------------------------------------------------------------------
\* The executors.  Every executor runs inside `with model:`; its loop body
\* is split at the calls that can raise (decode, inference, field write).
FFmpegVideoReader(s) == Image(s)
\* The patch cut for detection d of sample s (force_square and alpha at
\* their defaults, False and None).
Patch(s, d) ==
    [img |-> s, region |-> _extract_patch(ImgSize, DetBox(s, d), FALSE, None).region]

\* `with model:` entered: Model.__enter__.
ModelEnter ==
    /\ pc = "enter"
    /\ log' = Append(log, Ev("setup", 0, <<>>, NoArr))
    /\ pc' = "iter"
    /\ UNCHANGED <<session, config, path, batch_size, consulted, it, batch, imgs,
                   out, j, acc, embeddings_dict, reader, result, err, last, geom, voc>>

\* for sample in pb(samples): of the single-item and video executors.
SingleNext ==
    /\ pc = "iter"
    /\ path \in {"single", "video"}
    /\ IF it < samples.n
       THEN /\ it' = it + 1
            /\ batch' = <<it + 1>>
            /\ pc' = IF path = "video" THEN "open" ELSE "decode"
       ELSE /\ pc' = "exit"
            /\ UNCHANGED <<it, batch>>
    /\ imgs' = <<>>
    /\ j' = 0
    /\ UNCHANGED <<session, config, path, batch_size, consulted, out, acc,
                   embeddings_dict, reader, log, result, err, last, geom, voc>>

\* Variant of BatchNext: a last batch shorter than the batch size is
\* dropped.
BatchNext_drop_last ==
    /\ pc = "iter"
    /\ path = "batch"
    /\ LET b == iter_batches(Samples, it, Val(batch_size)) IN
       IF b # <<>> /\ Len(b) = Val(batch_size)
       THEN /\ it' = it + Len(b)
            /\ batch' = b
            /\ pc' = "decode"
       ELSE /\ pc' = "exit"
            /\ UNCHANGED <<it, batch>>
    /\ imgs' = <<>>
    /\ j' = 0
    /\ UNCHANGED <<session, config, path, batch_size, consulted, out, acc,
                   embeddings_dict, reader, log, result, err, last, geom, voc>>

\* for sample_batch in samples_loader: of the batched executors.
BatchNext ==
    /\ pc = "iter"
    /\ path = "batch"
    /\ LET b == iter_batches(Samples, it, Val(batch_size)) IN
       IF b # <<>>
       THEN /\ it' = it + Len(b)
            /\ batch' = b
            /\ pc' = "decode"
       ELSE /\ pc' = "exit"
            /\ UNCHANGED <<it, batch>>
    /\ imgs' = <<>>
    /\ j' = 0
    /\ UNCHANGED <<session, config, path, batch_size, consulted, out, acc,
                   embeddings_dict, reader, log, result, err, last, geom, voc>>

\* for sample in pb(samples): of compute_patch_embeddings, with the
\* `continue` for a sample without detections.
PatchNext ==
    /\ pc = "iter"
    /\ path = "patch"
    /\ IF it < samples.n
       THEN LET detections == _parse_patches(samples.labels[it + 1]) IN
            /\ it' = it + 1
            /\ IF IsNone(detections) \/ Val(detections) = <<>>
               THEN UNCHANGED <<pc, batch>>
               ELSE /\ pc' = "decode"
                    /\ batch' = <<it + 1>>
       ELSE /\ pc' = "exit"
            /\ UNCHANGED <<it, batch>>
    /\ imgs' = <<>>
    /\ j' = 0
    /\ acc' = <<>>
    /\ UNCHANGED <<session, config, path, batch_size, consulted, out,
                   embeddings_dict, reader, log, result, err, last, geom, voc>>

\* etai.read(sample.filepath) for the next sample of the batch.
Decode ==
    /\ pc = "decode"
    /\ LET s == batch[Len(imgs) + 1] IN
       /\ imgs' = Append(imgs, Image(s))
       /\ log' = Append(log, Ev("decode", s, <<>>, NoArr))
    /\ pc' = IF Len(imgs) + 1 < Len(batch) THEN "decode"
             ELSE IF path = "patch" THEN "embed" ELSE "infer"
    /\ UNCHANGED <<session, config, path, batch_size, consulted, it, batch, out, j,
                   acc, embeddings_dict, reader, result, err, last, geom, voc>>

\* with etav.FFmpegVideoReader(sample.filepath) as video_reader:
VideoOpen ==
    /\ pc = "open"
    /\ reader' = Some(batch[1])
    /\ imgs' = <<FFmpegVideoReader(batch[1])>>
    /\ log' = Append(log, Ev("open", batch[1], <<>>, NoArr))
    /\ pc' = "infer"
    /\ UNCHANGED <<session, config, path, batch_size, consulted, it, batch, out, j,
                   acc, embeddings_dict, result, err, last, geom, voc>>

\* model.predict / predict_all / embed / embed_all on the decoded media.
Infer ==
    /\ pc = "infer"
    /\ IF path = "batch"
       THEN IF IsApply
            THEN /\ out' = predict_all(model, imgs)
                 /\ log' = Append(log, Ev("predict_all", 0, imgs, NoArr))
            ELSE /\ out' = embed_all(model, imgs)
                 /\ log' = Append(log, Ev("embed_all", 0, imgs, NoArr))
       ELSE IF IsApply
            THEN /\ out' = <<predict(model, imgs[1])>>
                 /\ log' = Append(log, Ev("predict", batch[1], imgs, NoArr))
            ELSE /\ out' = embed(model, imgs[1])
                 /\ log' = Append(log, Ev("embed", batch[1], imgs, NoArr))
    /\ pc' = IF path = "video" THEN "close" ELSE "write"
    /\ UNCHANGED <<session, config, path, batch_size, consulted, it, batch, imgs, j,
                   acc, embeddings_dict, reader, result, err, last, geom, voc>>

\* Leaving `with ... as video_reader:` after the model call returned.
VideoClose ==
    /\ pc = "close"
    /\ reader' = None
    /\ log' = Append(log, Ev("close", batch[1], <<>>, NoArr))
    /\ pc' = "write"
    /\ UNCHANGED <<session, config, path, batch_size, consulted, it, batch, imgs,
                   out, j, acc, embeddings_dict, result, err, last, geom, voc>>

\* sample.add_labels(label, label_field, ...) for the next sample of the
\* batch (zip(sample_batch, label_batch)).
WriteLabel ==
    /\ pc = "write"
    /\ IsApply
    /\ log' = Append(log, Ev("add_labels", batch[j + 1], <<>>, out[j + 1]))
    /\ j' = j + 1
    /\ pc' = IF j + 1 < Min(Len(batch), Len(out)) THEN "write" ELSE "iter"
    /\ UNCHANGED <<session, config, path, batch_size, consulted, it, batch, imgs,
                   out, acc, embeddings_dict, reader, result, err, last, geom, voc>>

\* sample[embeddings_field] = embedding[0]  (single, video)
\* sample[embeddings_field] = embedding     (batched, for the next pair of
\* zip(sample_batch, embeddings_batch)).  The save is the next step.
WriteEmbedding ==
    /\ pc = "write"
    /\ op = "compute_embeddings"
    /\ FieldMode
    /\ log' = Append(log, Ev("write", batch[j + 1], <<>>, Row(out, j + 1)))
    /\ pc' = "save"
    /\ UNCHANGED <<session, config, path, batch_size, consulted, it, batch, imgs,
                   out, j, acc, embeddings_dict, reader, result, err, last, geom,
                   voc>>

\* sample.save() after the field was assigned; then the next pair of the
\* zip, or the next iteration of the loop over the samples.
SaveSample ==
    /\ pc = "save"
    /\ IF path = "patch"
       THEN /\ log' = Append(log, Ev("save", batch[1], <<>>, NoArr))
            /\ pc' = "iter"
            /\ UNCHANGED j
       ELSE /\ log' = Append(log, Ev("save", batch[j + 1], <<>>, NoArr))
            /\ j' = j + 1
            /\ pc' = IF j + 1 < Min(Len(batch), out.shape[1])
                     THEN "write" ELSE "iter"
    /\ UNCHANGED <<session, config, path, batch_size, consulted, it, batch, imgs,
                   out, acc, embeddings_dict, reader, result, err, last, geom, voc>>

\* embeddings.append(embedding) / embeddings.append(embeddings_batch)
Accumulate ==
    /\ pc = "write"
    /\ op = "compute_embeddings"
    /\ ~FieldMode
    /\ acc' = Append(acc, out)
    /\ pc' = "iter"
    /\ UNCHANGED <<session, config, path, batch_size, consulted, it, batch, imgs,
                   out, j, embeddings_dict, reader, log, result, err, last, geom, voc>>

\* _embed_patches_single: the next detection's patch is extracted and
\* embedded; after the last one, np.concatenate(embeddings).
PatchEmbedSingle ==
    /\ pc = "embed"
    /\ IsNone(batch_size)
    /\ LET s == batch[1]
           k == Len(Val(_parse_patches(samples.labels[s])))
       IN  IF j < k
           THEN /\ acc' = Append(acc, embed(model, Patch(s, j + 1)))
                /\ log' = Append(log, Ev("embed", s, <<Patch(s, j + 1)>>, NoArr))
                /\ j' = j + 1
                /\ UNCHANGED <<out, pc, err>>
           ELSE /\ out' = np_concatenate(acc)
                /\ pc' = "write"
                /\ UNCHANGED <<acc, log, j, err>>
    /\ UNCHANGED <<session, config, path, batch_size, consulted, it, batch, imgs,
                   embeddings_dict, reader, result, last, geom, voc>>

\* Variant of PatchEmbedBatch: all patches of the sample go to one
\* embed_all call, whatever the batch size.
PatchEmbedBatch_whole ==
    /\ pc = "embed"
    /\ ~IsNone(batch_size)
    /\ LET s == batch[1]
           detections == Val(_parse_patches(samples.labels[s]))
           detection_batch == iter_batches(detections, j, Len(detections))
           patches == [i \in 1..Len(detection_batch) |-> Patch(s, detection_batch[i])]
       IN  IF detection_batch # <<>>
           THEN /\ acc' = Append(acc, embed_all(model, patches))
                /\ log' = Append(log, Ev("embed_all", s, patches, NoArr))
                /\ j' = j + Len(detection_batch)
                /\ UNCHANGED <<out, pc, err>>
           ELSE IF acc = <<>>
           THEN /\ err' = "ValueError: concatenate"
                /\ pc' = "unwind"
                /\ UNCHANGED <<acc, log, j, out>>
           ELSE /\ out' = np_concatenate(acc)
                /\ pc' = "write"
                /\ UNCHANGED <<acc, log, j, err>>
    /\ UNCHANGED <<session, config, path, batch_size, consulted, it, batch, imgs,
                   embeddings_dict, reader, result, last, geom, voc>>

\* _embed_patches_batch: the next batch of detections is extracted and
\* embedded with embed_all; after the last one, np.concatenate(embeddings),
\* which raises ValueError on an empty list.
PatchEmbedBatch ==
    /\ pc = "embed"
    /\ ~IsNone(batch_size)
    /\ LET s == batch[1]
           detections == Val(_parse_patches(samples.labels[s]))
           detection_batch == iter_batches(detections, j, Val(batch_size))
           patches == [i \in 1..Len(detection_batch) |-> Patch(s, detection_batch[i])]
       IN  IF detection_batch # <<>>
           THEN /\ acc' = Append(acc, embed_all(model, patches))
                /\ log' = Append(log, Ev("embed_all", s, patches, NoArr))
                /\ j' = j + Len(detection_batch)
                /\ UNCHANGED <<out, pc, err>>
           ELSE IF acc = <<>>
           THEN /\ err' = "ValueError: concatenate"
                /\ pc' = "unwind"
                /\ UNCHANGED <<acc, log, j, out>>
           ELSE /\ out' = np_concatenate(acc)
                /\ pc' = "write"
                /\ UNCHANGED <<acc, log, j, err>>
    /\ UNCHANGED <<session, config, path, batch_size, consulted, it, batch, imgs,
                   embeddings_dict, reader, result, last, geom, voc>>

\* sample[embeddings_field] = embeddings (the save is the next step), or
\* embeddings_dict[sample.id] = embeddings.
PatchWrite ==
    /\ pc = "write"
    /\ op = "compute_patch_embeddings"
    /\ IF FieldMode
       THEN /\ log' = Append(log, Ev("write", batch[1], <<>>, out))
            /\ pc' = "save"
            /\ UNCHANGED embeddings_dict
       ELSE /\ embeddings_dict' =
                   SelectSeq(embeddings_dict, LAMBDA e : e.id # batch[1])
                   \o <<[id |-> batch[1], val |-> out]>>
            /\ pc' = "iter"
            /\ UNCHANGED log
    /\ UNCHANGED <<session, config, path, batch_size, consulted, it, batch, imgs,
                   out, j, acc, reader, result, err, last, geom, voc>>

\* Variant of Fail: the exception is caught in the loop body, and the loop
\* goes on with the next item.
Fail_skip ==
    /\ \/ pc \in {"decode", "open"} /\ err' = "DecodeFailure"
       \/ pc \in {"infer", "embed"} /\ err' = "InferenceFailure"
       \/ pc = "write" /\ (IsApply \/ FieldMode) /\ err' = "WriteFailure"
       \/ pc = "save" /\ err' = "WriteFailure"
    /\ IF ~IsNone(reader)
       THEN /\ reader' = None
            /\ log' = Append(log, Ev("close", Val(reader), <<>>, NoArr))
       ELSE UNCHANGED <<reader, log>>
    /\ pc' = "iter"
    /\ UNCHANGED <<session, config, path, batch_size, consulted, it, batch, imgs,
                   out, j, acc, embeddings_dict, result, last, geom, voc>>

\* Variant of Fail: the exception leaves the loop with the video reader
\* still open.
Fail_leak ==
    /\ \/ pc \in {"decode", "open"} /\ err' = "DecodeFailure"
       \/ pc \in {"infer", "embed"} /\ err' = "InferenceFailure"
       \/ pc = "write" /\ (IsApply \/ FieldMode) /\ err' = "WriteFailure"
       \/ pc = "save" /\ err' = "WriteFailure"
    /\ pc' = "unwind"
    /\ UNCHANGED <<session, config, path, batch_size, consulted, it, batch, imgs,
                   out, j, acc, embeddings_dict, reader, log, result, last, geom,
                   voc>>

\* The decoder, the model or the sample store raises: the exception leaves
\* the loop, closing the video reader if one is open.
Fail ==
    /\ \/ pc \in {"decode", "open"} /\ err' = "DecodeFailure"
       \/ pc \in {"infer", "embed"} /\ err' = "InferenceFailure"
       \/ pc = "write" /\ (IsApply \/ FieldMode) /\ err' = "WriteFailure"
       \/ pc = "save" /\ err' = "WriteFailure"
    /\ IF ~IsNone(reader)
       THEN /\ reader' = None
            /\ log' = Append(log, Ev("close", Val(reader), <<>>, NoArr))
       ELSE UNCHANGED <<reader, log>>
    /\ pc' = "unwind"
    /\ UNCHANGED <<session, config, path, batch_size, consulted, it, batch, imgs,
                   out, j, acc, embeddings_dict, result, last, geom, voc>>

\* Variant of Unwind: the exception leaves `with model:` without
\* Model.__exit__ being run.
Unwind_no_exit ==
    /\ pc = "unwind"
    /\ pc' = "raised"
    /\ UNCHANGED <<session, config, path, batch_size, consulted, it, batch, imgs,
                   out, j, acc, embeddings_dict, reader, log, result, err, last,
                   geom, voc>>

\* Model.__exit__ while an exception propagates to the caller.
Unwind ==
    /\ pc = "unwind"
    /\ log' = Append(log, Ev("teardown", 0, <<>>, NoArr))
    /\ pc' = "raised"
    /\ UNCHANGED <<session, config, path, batch_size, consulted, it, batch, imgs,
                   out, j, acc, embeddings_dict, reader, result, err, last, geom, voc>>

\* Model.__exit__ after the loop completed.
ModelExit ==
    /\ pc = "exit"
    /\ log' = Append(log, Ev("teardown", 0, <<>>, NoArr))
    /\ pc' = "return"
    /\ UNCHANGED <<session, config, path, batch_size, consulted, it, batch, imgs,
                   out, j, acc, embeddings_dict, reader, result, err, last, geom, voc>>

\* The return statement: None in field mode (and for apply_model), else
\* np.concatenate(embeddings), which raises ValueError on an empty list,
\* or embeddings_dict.
Return ==
    /\ pc = "return"
    /\ IF IsApply \/ FieldMode
       THEN /\ result' = Res("None", NoArr, <<>>)
            /\ pc' = "done"
            /\ UNCHANGED err
       ELSE IF op = "compute_patch_embeddings"
       THEN /\ result' = Res("dict", NoArr, embeddings_dict)
            /\ pc' = "done"
            /\ UNCHANGED err
       ELSE IF acc = <<>>
       THEN /\ err' = "ValueError: concatenate"
            /\ pc' = "raised"
            /\ UNCHANGED result
       ELSE /\ result' = Res("array", np_concatenate(acc), <<>>)
            /\ pc' = "done"
            /\ UNCHANGED err
    /\ UNCHANGED <<session, config, path, batch_size, consulted, it, batch, imgs,
                   out, j, acc, embeddings_dict, reader, log, last, geom, voc>>

Next ==
    \/ Call
    \/ apply_model
    \/ compute_embeddings
    \/ compute_patch_embeddings
    \/ ModelEnter
    \/ SingleNext
    \/ BatchNext
    \/ PatchNext
    \/ Decode
    \/ VideoOpen
    \/ Infer
    \/ VideoClose
    \/ WriteLabel
    \/ WriteEmbedding
    \/ SaveSample
    \/ Accumulate
    \/ PatchEmbedSingle
    \/ PatchEmbedBatch
    \/ PatchWrite
    \/ Fail
    \/ Unwind
    \/ ModelExit
    \/ Return

Spec == Init /\ [][Next]_vars

----------------------------------------------------------------------------
\* The patch geometry on its own: one call of _extract_patch on a detection
\* box, an image size, force_square and alpha.
Offsets == {0, 100, 400, 800}
Extents == {100, 200, 600}
Alphas == {None} \cup {Some(a) : a \in {-20, -10, -1, 0, 1, 9, 11}}
Sizes == {<<100, 100>>, <<64, 48>>}

InitPatch ==
    /\ op = "compute_patch_embeddings"
    /\ field = None
    /\ samples = [media_type |-> "image", n |-> 0, patches_type |-> "Detections",
                  labels |-> <<>>]
    /\ model = [embeddings_mixin |-> TRUE, has_embeddings |-> TRUE,
                torch_mixin |-> FALSE, ragged_batches |-> FALSE,
                overrides_embed_all |-> FALSE]
    /\ batch_size_arg = None
    /\ default_batch_size = None
    /\ pc = "idle"
    /\ path = "none"
    /\ batch_size = None
    /\ consulted = FALSE
    /\ it = 0
    /\ batch = <<>>
    /\ imgs = <<>>
    /\ out = NoArr
    /\ j = 0
    /\ acc = <<>>
    /\ embeddings_dict = <<>>
    /\ reader = None
    /\ log = <<>>
    /\ result = NoResult
    /\ err = ""
    /\ last = NoLast
    /\ voc = NoVoc
    /\ \E x \in Offsets, y \in Offsets, w \in Extents, h \in Extents,
          size \in Sizes, fs \in BOOLEAN, a \in Alphas :
          geom = [stage |-> "input", size |-> size, bounding_box |-> <<x, y, w, h>>,
                  force_square |-> fs, alpha |-> a,
                  bbox |-> to_detected_object(<<x, y, w, h>>),
                  region |-> <<0, 0, 0, 0>>]

ExtractPatch ==
    /\ geom.stage = "input"
    /\ LET p == _extract_patch(geom.size, geom.bounding_box, geom.force_square,
                               geom.alpha)
       IN  geom' = [geom EXCEPT !.stage = "extracted", !.bbox = p.bbox,
                                !.region = p.region]
    /\ UNCHANGED <<session, config, run, last, voc>>

NextPatch == ExtractPatch

SpecPatch == InitPatch /\ [][NextPatch]_vars

----------------------------------------------------------------------------
\* The VOC exporter on its own: one call of export_voc_detection_dataset on
\* a sequence of image paths (the labels are paired with them by zip and go
\* to the annotation writer untouched).  A path is its directory, the stem
\* of its file name and the extension.
Dirs == {"a", "b"}
Stems == {"x", "y"}
Exts == {".jpg", ".png"}
ImagePaths == [dir : Dirs, name : Stems, ext : Exts]
PathSeqs == UNION {[1..n -> ImagePaths] : n \in 0..MaxPaths}

\* os.path.basename: the file name without its directory.
basename(img_path) == [name |-> img_path.name, ext |-> img_path.ext]
\* os.path.splitext: (name, ext) of a file name.
splitext(filename) == <<filename.name, filename.ext>>
\* os.path.join(dir, name + ext): an output file is the directory it is
\* written to, the stem, the numeric suffix appended to it (0: none) and
\* the extension.
OutPath(dir, name, suffix, ext) ==
    [dir |-> dir, name |-> name, suffix |-> suffix, ext |-> ext]

InitVoc ==
    /\ op = "compute_patch_embeddings"
    /\ field = None
    /\ samples = [media_type |-> "image", n |-> 0, patches_type |-> "Detections",
                  labels |-> <<>>]
    /\ model = [embeddings_mixin |-> TRUE, has_embeddings |-> TRUE,
                torch_mixin |-> FALSE, ragged_batches |-> FALSE,
                overrides_embed_all |-> FALSE]
    /\ batch_size_arg = None
    /\ default_batch_size = None
    /\ pc = "idle"
    /\ path = "none"
    /\ batch_size = None
    /\ consulted = FALSE
    /\ it = 0
    /\ batch = <<>>
    /\ imgs = <<>>
    /\ out = NoArr
    /\ j = 0
    /\ acc = <<>>
    /\ embeddings_dict = <<>>
    /\ reader = None
    /\ log = <<>>
    /\ result = NoResult
    /\ err = ""
    /\ last = NoLast
    /\ geom = NoGeom
    /\ \E ps \in PathSeqs :
          voc = [stage |-> "called", image_paths |-> ps, i |-> 0,
                 counts |-> <<>>, outputs |-> <<>>, err |-> ""]

\* The directories are made, the writer is built and the counter of base
\* names starts empty (a defaultdict(int): every name counts 0).
ExportBegin ==
    /\ voc.stage = "called"
    /\ voc' = [voc EXCEPT !.stage = "loop", !.counts = [s \in Stems |-> 0]]
    /\ UNCHANGED <<session, config, run, last, geom>>

\* One iteration of the loop over zip(image_paths, labels).  On a repeated
\* base name the suffix is built by adding an int to a str, which raises
\* TypeError before anything is written for that sample.
ExportSample ==
    /\ voc.stage = "loop"
    /\ voc.i < Len(voc.image_paths)
    /\ LET img_path == voc.image_paths[voc.i + 1]
           ne == splitext(basename(img_path))
           name == ne[1]
           ext == ne[2]
           data_filename_counts == [voc.counts EXCEPT ![name] = @ + 1]
           count == data_filename_counts[name]
       IN  IF count > 1
           THEN voc' = [voc EXCEPT !.stage = "raised", !.i = @ + 1,
                                   !.counts = data_filename_counts,
                                   !.err = "TypeError"]
           ELSE LET out_img_path == OutPath("data", name, 0, ext)
                    out_anno_path == OutPath("labels", name, 0, ".xml")
                IN  voc' = [voc EXCEPT
                               !.i = @ + 1,
                               !.counts = data_filename_counts,
                               !.outputs = Append(@,
                                   [src |-> voc.i + 1, img |-> out_img_path,
                                    anno |-> out_anno_path])]
    /\ UNCHANGED <<session, config, run, last, geom>>

\* The pairs are exhausted: the export returns.
ExportReturn ==
    /\ voc.stage = "loop"
    /\ voc.i = Len(voc.image_paths)
    /\ voc' = [voc EXCEPT !.stage = "done"]
    /\ UNCHANGED <<session, config, run, last, geom>>

NextVoc ==
    \/ ExportBegin
    \/ ExportSample
    \/ ExportReturn

SpecVoc == InitVoc /\ [][NextVoc]_vars

----------------------------------------------------------------------------
\* Properties.
Injected == {"DecodeFailure", "InferenceFailure", "WriteFailure"}
Finished == pc \in {"done", "raised"}
Warnings == CountKind(log, {"warning"}, 0)
\* The batch size the negotiator resolves: the requested one, else the
\* process-wide default.
Resolved == IF IsNone(batch_size_arg) THEN default_batch_size ELSE batch_size_arg
HasDetections(s) ==
    samples.labels[s].type \in AllowedTypes /\ samples.labels[s].k >= 1

\* C1: a batched run (negotiated batch size >= 1) that completes leaves on
\* every sample the same value, of the same shape, and returns the same
\* array, as the single-item run on the same collection and model.
C1_BatchSizeInvariance ==
    (/\ pc = "done"
     /\ path = "batch"
     /\ Val(batch_size) >= 1
     /\ last.valid)
    => /\ \A s \in 1..samples.n : Written(s) = last.written[s]
       /\ result = last.result

\* C2: compute_embeddings(embeddings_field=None) on n >= 0 samples returns,
\* on the single-item, batched (batch size >= 1) and video paths, an array
\* whose first dimension is n and whose i-th entry holds the embedding of
\* the i-th sample.
C2_ReturnsOneRowPerSample ==
    (/\ op = "compute_embeddings"
     /\ IsNone(field)
     /\ Finished
     /\ path \in {"single", "batch", "video"}
     /\ path = "batch" => Val(batch_size) >= 1
     /\ err \notin Injected)
    => /\ pc = "done"
       /\ result.kind = "array"
       /\ result.arr.shape[1] = samples.n
       /\ \A i \in 1..samples.n : Row(result.arr, i).data = Vec(Image(i))

\* C3: when the model is not an EmbeddingsMixin or has no embeddings
\* (compute_embeddings, compute_patch_embeddings), or the media type is not
\* image (compute_patch_embeddings), the call raises ValueError with no
\* setup, decode, model call, backend call, iteration or field write done.
C3_FailFastValidation ==
    (/\ pc \notin {"idle", "start"}
     /\ \/ /\ op \in {"compute_embeddings", "compute_patch_embeddings"}
           /\ ~model.embeddings_mixin \/ ~model.has_embeddings
        \/ /\ op = "compute_patch_embeddings"
           /\ samples.media_type # "image")
    => /\ pc = "raised"
       /\ err \in {"ValueError: mixin", "ValueError: has_embeddings",
                   "ValueError: image"}
       /\ log = <<>>
       /\ path = "none"
       /\ ~consulted
       /\ it = 0
       /\ imgs = <<>>
       /\ IsNone(reader)
       /\ embeddings_dict = <<>>
       /\ result = NoResult
C3_Witness ==
    /\ pc = "raised"
    /\ op = "compute_embeddings"
    /\ model.embeddings_mixin
    /\ ~model.has_embeddings
    /\ samples.n > 0

\* C4: compute_patch_embeddings never decodes, embeds, writes, saves or
\* keys a sample whose patch source resolves to no detections; on
\* completion every sample with a detection has exactly one field write
\* and save (field mode) or exactly one entry under its id (in-memory
\* mode); a collection of samples without detections completes.
C4_EmptyPatchSamplesOmitted ==
    (op = "compute_patch_embeddings" /\ path = "patch")
    => /\ \A s \in 1..samples.n :
            ~HasDetections(s)
            => /\ CountKind(log, {"write", "save", "decode"} \cup ModelCalls, s) = 0
               /\ \A i \in 1..Len(embeddings_dict) : embeddings_dict[i].id # s
       /\ pc = "done"
          => /\ \A s \in 1..samples.n :
                  HasDetections(s)
                  => IF FieldMode
                     THEN /\ CountKind(log, {"write"}, s) = 1
                          /\ CountKind(log, {"save"}, s) = 1
                     ELSE Cardinality({i \in 1..Len(result.dict) :
                                          result.dict[i].id = s}) = 1
             /\ result.kind = IF FieldMode THEN "None" ELSE "dict"
             /\ \A i \in 1..Len(result.dict) : HasDetections(result.dict[i].id)
       /\ (Finished /\ \A s \in 1..samples.n : ~HasDetections(s)) => pc = "done"
C4_Witness ==
    /\ pc = "done"
    /\ op = "compute_patch_embeddings"
    /\ samples.n = 2
    /\ samples.labels[1] = Label("Detections", 0)
    /\ samples.labels[2] = Label("Detections", 2)
    /\ Len(result.dict) = 1

\* C5: apply_model, and compute_embeddings once its checks passed, take
\* one path: video media -> video executor (negotiator not consulted, batch
\* size untouched); else a TorchModelMixin model -> the backend, batch size
\* passed through, negotiator not consulted, no warning; else the batched
\* executor iff the negotiated batch size is not None, else single-item.
C5_DispatchRule ==
    (/\ pc \notin {"idle", "start"}
     /\ \/ op = "apply_model"
        \/ op = "compute_embeddings" /\ model.embeddings_mixin /\ model.has_embeddings)
    => IF samples.media_type = "video"
       THEN /\ path = "video"
            /\ ~consulted
            /\ batch_size = batch_size_arg
            /\ Warnings = 0
            /\ CountKind(log, {"backend"}, 0) = 0
       ELSE IF model.torch_mixin
       THEN /\ path = "backend"
            /\ pc = "backend"
            /\ ~consulted
            /\ batch_size = batch_size_arg
            /\ Warnings = 0
            /\ CountKind(log, {"setup", "decode"} \cup ModelCalls, 0) = 0
       ELSE /\ consulted
            /\ path = IF IsNone(batch_size) THEN "single" ELSE "batch"
            /\ CountKind(log, {"backend"}, 0) = 0
C5_Witness ==
    /\ op = "compute_embeddings"
    /\ path = "video"
    /\ model.torch_mixin
    /\ model.ragged_batches
    /\ batch_size_arg = Some(2)
    /\ pc = "done"

\* C6: the negotiator resolves r = the requested batch size, else the
\* default; if r is present, r > 1 and the model has ragged_batches it logs
\* one warning, does not raise and returns None; otherwise it returns r
\* unchanged and logs nothing.
C6_NegotiatorPolicy ==
    consulted
    => /\ IF ~IsNone(Resolved) /\ Val(Resolved) > 1 /\ model.ragged_batches
          THEN IsNone(batch_size) /\ Warnings = 1
          ELSE batch_size = Resolved /\ Warnings = 0
       /\ path \in {"single", "batch", "patch"}
       /\ pc = "raised" => err \in Injected \cup {"ValueError: concatenate"}
C6_Witness ==
    /\ consulted
    /\ model.ragged_batches
    /\ IsNone(batch_size_arg)
    /\ default_batch_size = Some(2)
    /\ IsNone(batch_size)
    /\ Warnings = 1
    /\ pc = "done"

\* C7: whatever batch size is requested and whatever the default is, the
\* negotiated batch size is None or at least 1, and the batched executor
\* runs with a batch size of at least 1.
C7_NegotiatedAtLeastOne ==
    /\ consulted => (IsNone(batch_size) \/ Val(batch_size) >= 1)
    /\ path = "batch" => Val(batch_size) >= 1

\* The samples that produced an embedding in a completed run.
Produced(s) ==
    /\ s \in 1..it
    /\ op = "compute_patch_embeddings" => HasDetections(s)

\* C8: with embeddings_field given the call returns None and every sample
\* that produced an embedding was set and saved exactly once, with one
\* embedding vector (compute_embeddings) or one stacked array with a row
\* per detection (compute_patch_embeddings); with embeddings_field absent
\* nothing is written or saved and the accumulated array or mapping is
\* returned.
C8_ExclusiveMaterialization ==
    (/\ op \in {"compute_embeddings", "compute_patch_embeddings"}
     /\ path \in {"single", "batch", "video", "patch"})
    => IF FieldMode
       THEN /\ embeddings_dict = <<>>
            /\ pc = "done"
               => /\ result.kind = "None"
                  /\ \A s \in 1..samples.n :
                        Produced(s)
                        => /\ Len(Written(s)) = 1
                           /\ CountKind(log, {"save"}, s) = 1
                           /\ IF op = "compute_embeddings"
                              THEN /\ Rank(Written(s)[1]) = 1
                                   /\ Written(s)[1].data = Vec(Image(s))
                              ELSE Written(s)[1].shape[1] = samples.labels[s].k
       ELSE /\ CountKind(log, {"write", "save"}, 0) = 0
            /\ pc = "done"
               => IF op = "compute_embeddings"
                  THEN /\ result.kind = "array"
                       /\ result.arr = np_concatenate(acc)
                  ELSE /\ result.kind = "dict"
                       /\ result.dict = embeddings_dict

Inside(b) == b[1] + b[3] <= 1000 /\ b[2] + b[4] <= 1000

\* C9: with alpha None or 0 and force_square false, a box inside the image
\* is extracted unchanged: the region is the box's corners converted to
\* pixels, [0.1, 0.1, 0.2, 0.2] in a 100x100 image giving [10, 10, 20, 20].
C9_NoAlphaExactBox ==
    (/\ geom.stage = "extracted"
     /\ ~geom.force_square
     /\ geom.alpha \in {None, Some(0)}
     /\ Inside(geom.bounding_box))
    => LET b == geom.bounding_box
           x1 == (geom.size[1] * b[1]) \div 1000
           y1 == (geom.size[2] * b[2]) \div 1000
           x2 == (geom.size[1] * (b[1] + b[3])) \div 1000
           y2 == (geom.size[2] * (b[2] + b[4])) \div 1000
       IN  /\ geom.bbox = [tlx |-> b[1], tly |-> b[2],
                           brx |-> b[1] + b[3], bry |-> b[2] + b[4]]
           /\ geom.region = <<x1, y1, x2 - x1, y2 - y1>>
           /\ (b = <<100, 100, 200, 200>> /\ geom.size = <<100, 100>>)
              => geom.region = <<10, 10, 20, 20>>
C9_Witness ==
    /\ geom.stage = "extracted"
    /\ ~geom.force_square
    /\ geom.alpha = Some(0)
    /\ geom.bounding_box = <<100, 100, 200, 200>>
    /\ geom.size = <<100, 100>>
    /\ geom.region = <<10, 10, 20, 20>>

\* C10: alpha = 1.1 makes the extracted box 10% wider and higher about its
\* center (each side clamped to the image), and alpha = 0.9 makes it 10%
\* narrower and lower.
C10_Alpha11ExpandsTenPercent ==
    (/\ geom.stage = "extracted"
     /\ geom.alpha \in {Some(11), Some(9)})
    => LET b == geom.bounding_box
           g == IF geom.alpha = Some(11) THEN 1 ELSE -1
       IN  /\ 20 * geom.bbox.tlx = Max(0, Min(20000, 20 * b[1] - g * b[3]))
           /\ 20 * geom.bbox.brx = Max(0, Min(20000, 20 * (b[1] + b[3]) + g * b[3]))
           /\ 20 * geom.bbox.tly = Max(0, Min(20000, 20 * b[2] - g * b[4]))
           /\ 20 * geom.bbox.bry = Max(0, Min(20000, 20 * (b[2] + b[4]) + g * b[4]))

----------------------------------------------------------------------------
\* The occurrence number of sample k's base name among the first k paths.
Occurrence(ps, k) ==
    Cardinality({i \in 1..k : splitext(basename(ps[i]))[1]
                              = splitext(basename(ps[k]))[1]})
\* The suffix the documented naming rule gives sample k: none on the first
\* occurrence of its base name, the count afterwards.
Suffix(ps, k) == IF Occurrence(ps, k) > 1 THEN Occurrence(ps, k) ELSE 0

\* C11: export_voc_detection_dataset completes on every sequence of image
\* paths, writes each sample's image and annotation under its base name,
\* with "-<count>" appended when the base name occurred before, and no two
\* samples are written to the same image path or the same XML path.
C11_ExportCompletesWithUniqueNames ==
    /\ voc.stage # "raised"
    /\ voc.stage = "done" =>
          LET ps == voc.image_paths
              o == voc.outputs
          IN  /\ Len(o) = Len(ps)
              /\ \A k \in 1..Len(o) :
                    /\ o[k].src = k
                    /\ o[k].img = OutPath("data", ps[k].name, Suffix(ps, k),
                                          ps[k].ext)
                    /\ o[k].anno = OutPath("labels", ps[k].name, Suffix(ps, k),
                                           ".xml")
              /\ \A k1, k2 \in 1..Len(o) :
                    k1 # k2 => /\ o[k1].img # o[k2].img
                               /\ o[k1].anno # o[k2].anno

----------------------------------------------------------------------------
ExecutorPaths == {"single", "batch", "video", "patch"}
\* The calls that must happen inside `with model:`.
Bracketed == {"decode", "open", "close", "write", "save", "add_labels"}
             \cup ModelCalls
\* The positions of the log holding an event of one of the kinds.
Positions(kinds) == {i \in 1..Len(log) : log[i].kind \in kinds}

\* C12: in every executor (single-item, batched, video, patch) the model's
\* setup is run exactly once and before any decode or model call, every
\* decode, model call and field write lies after the setup and before the
\* teardown, and the teardown is run exactly once on every way out: normal
\* completion (also of an empty collection) and any failure of a decode,
\* of the model or of a field write.
C12_SetupTeardownBracket ==
    path \in ExecutorPaths =>
       /\ Cardinality(Positions({"setup"})) = (IF pc = "enter" THEN 0 ELSE 1)
       /\ Cardinality(Positions({"teardown"}))
             = (IF pc \in {"return", "done", "raised"} THEN 1 ELSE 0)
       /\ \A i \in Positions(Bracketed) :
             /\ \E s \in Positions({"setup"}) : s < i
             /\ \A e \in Positions({"teardown"}) : i < e
       /\ \A s \in Positions({"setup"}), e \in Positions({"teardown"}) : s < e

\* A field write failed after an earlier sample was written, and the
\* exception has left the executor.
C12_Witness ==
    /\ pc = "raised"
    /\ path \in ExecutorPaths
    /\ err = "WriteFailure"
    /\ Positions({"write", "add_labels"}) # {}
    /\ Cardinality(Positions({"teardown"})) = 1

----------------------------------------------------------------------------
\* The field writes of the run, in the order made.
FieldWrites == SelectSeq(log, LAMBDA e : e.kind \in {"write", "add_labels"})
\* The executors that write one field per sample: those of apply_model and
\* of compute_embeddings in field mode.
WritesPerSample ==
    /\ path \in {"single", "batch", "video"}
    /\ IsApply \/ (op = "compute_embeddings" /\ FieldMode)

\* C13: in apply_model and in compute_embeddings in field mode, whatever
\* the batch size, the fields are written in input order, each with the
\* result computed from the sample's own media, and a run that completes
\* has written every sample exactly once: none skipped, none written twice.
C13_WritesInInputOrderOncePerSample ==
    WritesPerSample =>
       /\ \A i \in 1..Len(FieldWrites) :
             /\ FieldWrites[i].val.data = <<Image(FieldWrites[i].sample)>>
             /\ i > 1 => FieldWrites[i - 1].sample < FieldWrites[i].sample
       /\ pc = "done" =>
             /\ Len(FieldWrites) = samples.n
             /\ \A s \in 1..samples.n : FieldWrites[s].sample = s

----------------------------------------------------------------------------
\* The samples an event of the log is about: its own sample, or the
\* samples whose media a batched model call was given.
EventSamples(e) ==
    IF e.sample # 0 THEN {e.sample} ELSE {e.args[i].img : i \in 1..Len(e.args)}
\* The samples the executor had taken from the collection before the item
\* (single-item, video, patch) or the batch (batched) it is working on.
Before == IF path = "batch" THEN 1..(it - Len(batch)) ELSE 1..(it - 1)
\* The samples among those that the executor writes a field for.
DueBefore ==
    IF path = "patch" THEN {s \in Before : HasDetections(s)} ELSE Before
\* The last sample the failing step was working on: the sample whose decode
\* failed, or the last one of the item or batch the model failed on.
FailingSample ==
    IF err = "DecodeFailure" /\ path # "video" THEN batch[Len(imgs) + 1] ELSE it

\* C14: when a decode or a model call fails in an executor, the error
\* leaves the executor as raised (the run does not go on, nothing is
\* returned), nothing was decoded, inferred or written for a sample after
\* the failing item, and the fields written are exactly those of the
\* samples before the failing item (single-item, video) or before the
\* failing batch (batched), each written once with its own result.
C14_FailurePropagatesKeepingEarlierWrites ==
    (path \in ExecutorPaths /\ err \in {"DecodeFailure", "InferenceFailure"}) =>
       /\ pc \in {"unwind", "raised"}
       /\ result = NoResult
       /\ \A i \in Positions(Bracketed) : \A s \in EventSamples(log[i]) : s <= FailingSample
       /\ (IsApply \/ FieldMode) =>
             /\ {FieldWrites[i].sample : i \in 1..Len(FieldWrites)} = DueBefore
             /\ Len(FieldWrites) = Cardinality(DueBefore)
             /\ \A i \in 1..Len(FieldWrites) :
                   /\ i > 1 => FieldWrites[i - 1].sample < FieldWrites[i].sample
                   /\ path # "patch" =>
                         FieldWrites[i].val.data = <<Image(FieldWrites[i].sample)>>

\* The model failed on the second batch of a batched run, after the first
\* batch was written.
C14_Witness ==
    /\ pc = "raised"
    /\ path = "batch"
    /\ err = "InferenceFailure"
    /\ Len(batch) >= 1
    /\ it > Len(batch)
    /\ Len(FieldWrites) = it - Len(batch)

----------------------------------------------------------------------------
\* The positions of the log holding an event of one of the kinds for
\* sample s.
PositionsOf(kinds, s) == {i \in Positions(kinds) : log[i].sample = s}
\* The reader events of the run, in order.
ReaderEvents == SelectSeq(log, LAMBDA e : e.kind \in {"open", "close"})

\* C15: in the video executors a reader is opened for one sample at a
\* time, given whole to exactly one predict/embed call, and released
\* before that sample's result is written and before the next reader is
\* opened, also when the model call fails; at most one reader is open at
\* any time, none is open once the run has ended, and the batch size plays
\* no part.
C15_VideoReaderScopedToOneCall ==
    path = "video" =>
       \* the negotiator is not called and nothing is batched
       /\ ~consulted
       /\ Positions({"decode", "predict_all", "embed_all"}) = {}
       \* opens and closes alternate, sample by sample
       /\ \A i \in 1..Len(ReaderEvents) :
             /\ ReaderEvents[i].kind = (IF i % 2 = 1 THEN "open" ELSE "close")
             /\ ReaderEvents[i].sample = (i + 1) \div 2
       /\ IsNone(reader) <=> Len(ReaderEvents) % 2 = 0
       /\ ~IsNone(reader) => Val(reader) = it
       /\ pc \in {"iter", "exit", "unwind", "return", "done", "raised"}
             => IsNone(reader)
       \* one model call per reader, on that reader, while it is open
       /\ \A s \in 1..samples.n :
             /\ Cardinality(PositionsOf({"predict", "embed"}, s)) <= 1
             /\ \A c \in PositionsOf({"predict", "embed"}, s) :
                   /\ log[c].args = <<FFmpegVideoReader(s)>>
                   /\ \E o \in PositionsOf({"open"}, s) : o < c
                   /\ \A x \in PositionsOf({"close"}, s) : c < x
             /\ PositionsOf({"close"}, s) # {}
                   => (\/ PositionsOf({"predict", "embed"}, s) # {}
                       \/ err = "InferenceFailure" /\ s = it)
             \* the write follows the release
             /\ \A w \in PositionsOf({"write", "add_labels"}, s) :
                   \E x \in PositionsOf({"close"}, s) : x < w

\* The model failed on the second video: its reader was released, after
\* the first video's reader was released and its result written.
C15_Witness ==
    /\ path = "video"
    /\ pc = "raised"
    /\ err = "InferenceFailure"
    /\ it = 2
    /\ IsNone(reader)
    /\ PositionsOf({"close"}, 2) # {}
    /\ PositionsOf({"write", "add_labels"}, 1) # {}

----------------------------------------------------------------------------
\* The batched model calls of the run, in order.
BatchCalls == SelectSeq(log, LAMBDA e : e.kind \in {"predict_all", "embed_all"})
\* ceil(n / b) for b >= 1.
CeilDiv(n, b) == (n + b - 1) \div b

\* C16: with a negotiated batch size b >= 1 the batched executor calls
\* predict_all/embed_all on contiguous batches in input order: the i-th
\* call gets the media of samples (i-1)*b+1 .. min(i*b, n), so every batch
\* but the last has b samples, the last has 1..b and none is empty; all
\* samples of a batch are decoded before the call on it; and a run whose
\* loop has ended made exactly ceil(n/b) calls, which together cover the
\* input sequence.
C16_BatchPartition ==
    (path = "batch" /\ Val(batch_size) >= 1) =>
       LET b == Val(batch_size)
           n == samples.n
       IN  /\ \A i \in 1..Len(BatchCalls) :
                 /\ Len(BatchCalls[i].args) = Min(b, n - (i - 1) * b)
                 /\ Len(BatchCalls[i].args) >= 1
                 /\ \A k \in 1..Len(BatchCalls[i].args) :
                       BatchCalls[i].args[k] = Image((i - 1) * b + k)
           /\ \A c \in Positions({"predict_all", "embed_all"}) :
                 \A k \in 1..Len(log[c].args) :
                    \E d \in PositionsOf({"decode"}, log[c].args[k].img) : d < c
           /\ pc \in {"exit", "return", "done"} =>
                 /\ Len(BatchCalls) = CeilDiv(n, b)
                 /\ Flatten([i \in 1..Len(BatchCalls) |-> BatchCalls[i].args])
                       = [s \in 1..n |-> Image(s)]

\* Three samples with batch size 2: a batch of 2, then a batch of 1.
C16_Witness ==
    /\ pc = "done"
    /\ path = "batch"
    /\ samples.n = 3
    /\ batch_size = Some(2)
    /\ Len(BatchCalls) = 2
    /\ Len(BatchCalls[1].args) = 2
    /\ Len(BatchCalls[2].args) = 1

----------------------------------------------------------------------------
\* The calls of one kind made for sample s, in order.
CallsOf(kind, s) == SelectSeq(log, LAMBDA e : e.kind = kind /\ e.sample = s)
\* The number of detections of sample s (0 when the field holds none).
NumDets(s) ==
    LET detections == _parse_patches(samples.labels[s])
    IN  IF IsNone(detections) THEN 0 ELSE Len(Val(detections))
\* The arrays produced for sample s: written to its field, or stored under
\* its id in the returned mapping.
OutputsOf(s) ==
    {log[w].val : w \in PositionsOf({"write"}, s)}
    \cup {embeddings_dict[i].val :
             i \in {x \in 1..Len(embeddings_dict) : embeddings_dict[x].id = s}}

\* C17: in compute_patch_embeddings with a batch size b, the i-th embed_all
\* call made for a sample gets the patches of that sample's detections
\* (i-1)*b+1 .. min(i*b, k): one sample only, at most b, contiguous in
\* detection order; without a batch size the i-th embed call made for a
\* sample gets the patch of its i-th detection; either way an output
\* produced for a sample has one embedding per detection in detection
\* order, and the sample's image is decoded once, before the first model
\* call on its patches.
C17_PatchBatchesWithinSample ==
    path = "patch" =>
       \A s \in 1..samples.n :
          LET k == NumDets(s)
              all == CallsOf("embed_all", s)
              one == CallsOf("embed", s)
          IN  /\ PositionsOf({"predict", "predict_all"}, s) = {}
              /\ IsNone(batch_size) =>
                    /\ all = <<>>
                    /\ Len(one) <= k
                    /\ \A i \in 1..Len(one) : one[i].args = <<Patch(s, i)>>
                    /\ OutputsOf(s) # {} => Len(one) = k
              /\ ~IsNone(batch_size) =>
                    LET b == Val(batch_size) IN
                    /\ one = <<>>
                    /\ \A i \in 1..Len(all) :
                          /\ Len(all[i].args) = Min(b, k - (i - 1) * b)
                          /\ Len(all[i].args) >= 1
                          /\ Len(all[i].args) <= b
                          /\ \A x \in 1..Len(all[i].args) :
                                all[i].args[x] = Patch(s, (i - 1) * b + x)
                    /\ OutputsOf(s) # {} => Len(all) = CeilDiv(k, b)
              /\ \A o \in OutputsOf(s) :
                    /\ o.shape[1] = k
                    /\ o.data = [d \in 1..k |-> Patch(s, d)]
              /\ Cardinality(OutputsOf(s)) <= 1
              /\ Cardinality(PositionsOf({"decode"}, s)) <= 1
              /\ \A c \in PositionsOf({"embed", "embed_all"}, s) :
                    \E d \in PositionsOf({"decode"}, s) : d < c
              /\ OutputsOf(s) # {} => Cardinality(PositionsOf({"decode"}, s)) = 1

\* Batch size 2, a sample with one detection followed by a sample with
\* two: the calls are on (s1d1) and on (s2d1, s2d2), and both outputs
\* exist.
C17_Witness ==
    /\ path = "patch"
    /\ pc = "done"
    /\ batch_size = Some(2)
    /\ samples.n >= 2
    /\ NumDets(1) = 1
    /\ NumDets(2) = 2
    /\ Len(CallsOf("embed_all", 1)) = 1
    /\ Len(CallsOf("embed_all", 2)) = 1
    /\ OutputsOf(1) # {}
    /\ OutputsOf(2) # {}
====
